---- MODULE Spec2Model ----
(***************************************************************************)
(* rpc-tester (src/index.js): one run of main() over a chain directory,    *)
(* with the bounded work scheduler batchCall and the three-stage endpoint  *)
(* probe.  JavaScript runs to completion between awaits, so synchronous    *)
(* code is a chain of steps during which no network callback is enabled.   *)
(***************************************************************************)
EXTENDS Integers, Sequences, FiniteSets, TLC

\* ------------------------------------------------------------------ bounds
MaxChains == 2      \* chains in the fetched directory
MaxEntries == 2     \* rpc entries in the whole directory
MaxC == 2           \* largest concurrency value tried
MaxTasks == 3       \* tasks handed to batchCall when it is driven directly
MaxBatch == 130     \* largest magnitude of a --batch=N value tried

\* ------------------------------------------------------------- JS values
Min(a, b) == IF a < b THEN a ELSE b
Undef == "<undefined>"                      \* the value undefined
JsNull == [t |-> "null"]                    \* the value null
Num(n) == [t |-> "number", n |-> n]
Str(s) == [t |-> "string", s |-> s]

UrlA == "https://a/"
UrlB == "https://b/"

IsValidUrl(url) == url \in {UrlA, UrlB, "task"}

\* String(v) and `${v}` for the chain ids of the model.
NumToString(n) == CASE n = 0 -> "0" [] n = 1 -> "1" [] n = 2 -> "2" [] OTHER -> "3"
String(v) ==
  CASE v.t = "number" -> NumToString(v.n)
    [] v.t = "string" -> v.s
    [] OTHER -> "null"

\* Number(v) for the chain ids of the model (Number("") is 0).
Number(v) ==
  CASE v.t = "number" -> v.n
    [] v.t = "string" -> (CASE v.s = "1" -> 1 [] v.s = "2" -> 2 [] OTHER -> 0)
    [] OTHER -> 0

IdMissingNever(chainId) == FALSE

\* chainId == null || chainId === ""
IdMissing(chainId) == chainId = JsNull \/ chainId = Str("")

\* ------------------------------------------------------------ input sets
ValidIds == {Num(1), Str("1"), Num(2)}
MissingIds == {JsNull, Str("")}
Keys == {String(id) : id \in ValidIds}

\* What `${chainId}` can be for any chain of a directory: the file names.
Names == {String(id) : id \in ValidIds \cup MissingIds}

\* A directory entry of chain.rpc: a plain string, or an object with or
\* without a url field.
Entries == { [t |-> "string", s |-> UrlA],
             [t |-> "object", url |-> UrlB],
             [t |-> "object", url |-> Undef] }

RpcLists(n) == UNION { [1..k -> Entries] : k \in 0..n }

Chain(id, name, rpc) == [chainId |-> id, name |-> name, rpc |-> rpc]

\* Chains without an id are never read further, so they carry no rpc list;
\* the chain with the numeric-string id is the one without a name.
Descriptors(n) ==
  { Chain(id, "Chain", <<>>) : id \in MissingIds }
  \cup { Chain(id, IF id.t = "string" THEN Undef ELSE "Chain", rpc) :
           id \in ValidIds, rpc \in RpcLists(n) }

RECURSIVE Directories(_, _)
Directories(k, n) ==
  IF k = 0 THEN { <<>> }
  ELSE { <<>> } \cup
       UNION { { <<c>> \o d : d \in Directories(k - 1, n - Len(c.rpc)) } :
               c \in Descriptors(n) }

\* --chains=...: no allow-list (chainIds = null), or a list of numbers.
NoFilter == [all |-> TRUE, ids |-> {}]
AllowLists == { NoFilter, [all |-> FALSE, ids |-> {1}] }

AllDirectories == Directories(MaxChains, MaxEntries)

\* ------------------------------------------------------------ file system
Absent == [t |-> "absent"]
Garbage == [t |-> "text", json |-> FALSE]
JSONstringify(v) == [t |-> "text", json |-> TRUE, v |-> v]
JSONparses(text) == text.json
JSONparse(text) == text.v

OldRecord == [name |-> "Old", chainId |-> Num(1),
              rpcs |-> << [url |-> "https://old/", supportsIpv6 |-> FALSE] >>]
PreExisting == { Absent, JSONstringify(OldRecord), Garbage }

NoEntry == [t |-> "none"]

\* The own property keys of an object, as JSON.stringify and Object.keys
\* enumerate them: the integer-like keys in ascending numeric order, then the
\* other string keys in the order of their creation.
IsArrayIndex(k) == k \in { NumToString(n) : n \in 0..3 }
KeyNumber(k) == Number(Str(k))
OwnKeys(order) ==
  SortSeq(SelectSeq(order, IsArrayIndex), LAMBDA a, b : KeyNumber(a) < KeyNumber(b))
  \o SelectSeq(order, LAMBDA k : ~IsArrayIndex(k))

\* JSON.stringify of an object with the properties `order` (in the order of
\* their creation) and the values m.
JSONstringifyObject(m, order) ==
  [t |-> "text", json |-> TRUE, keys |-> OwnKeys(order),
   v |-> [k \in { order[i] : i \in 1..Len(order) } |-> m[k]]]

\* obj[k] = v on an object: a new key is created last, an old one stays.
InsertKey(order, k) ==
  IF \E i \in 1..Len(order) : order[i] = k THEN order ELSE Append(order, k)

\* all.json as an earlier run left it next to 1.json, if one did.
StaleMerged == JSONstringifyObject([k \in {"1"} |-> OldRecord], <<"1">>)
AllJson(fs) == IF fs["1"] = JSONstringify(OldRecord) THEN StaleMerged ELSE Absent

\* -------------------------------------------------------------- parseArgs
BATCH_SIZE == 16
BatchLimit == 128

\* --batch=...: not given, given with a text parseInt makes nothing of, or
\* given with the digits of an integer.
NoArg == [t |-> "none"]
TextArg == [t |-> "text"]
IntArg(n) == [t |-> "int", n |-> n]
NaN == [t |-> "NaN"]

\* parseInt(batchArg.split("=")[1], 10)
parseInt(arg) == IF arg.t = "int" THEN Num(arg.n) ELSE NaN

\* Number.isNaN(batch) || batch < 1 ? BATCH_SIZE : Math.min(batch, 128)
batchSize(arg) ==
  LET batch == IF arg = NoArg THEN Num(BATCH_SIZE) ELSE parseInt(arg)
  IN  IF batch = NaN THEN BATCH_SIZE
      ELSE IF batch.n < 1 THEN BATCH_SIZE
      ELSE Min(batch.n, BatchLimit)

\* ------------------------------------------------------------- promises
Unset == [state |-> "unset"]
Pending(at) == [state |-> "pending", at |-> at]
Fulfilled(v) == [state |-> "fulfilled", value |-> v]
Rejected == [state |-> "rejected"]

VARIABLES
  batchArg, skipExisting, concurrency,    \* parseArgs
  files, mergedFile,                  \* the output directory
  pc, chains, chainIndex,             \* main
  urls, outcomes, rpcs, idx, merged, mergedKeys,
  totalRpcChecked, totalWorking, skipped, written,
  bpc, tasks, results, index,         \* batchCall
  spawned, running, retval,
  overtaken, stageLog, invoked,       \* history of the current batchCall
  inFlight,                           \* probes started and not yet settled
  chainState, writes, probes, sched,  \* history of the run, per chain
  worked, mergedWrites

argVars == <<batchArg, skipExisting, concurrency>>
fsVars == <<files, mergedFile>>
mergedVars == <<merged, mergedKeys>>
loopVars == <<chains, chainIndex>>
chainVars == <<urls, outcomes, rpcs, idx>>
countVars == <<totalRpcChecked, totalWorking, skipped, written>>
batchVars == <<bpc, tasks, results, index, spawned, running, retval>>
taskHist == <<overtaken, stageLog, invoked, inFlight>>
runHist == <<chainState, writes, probes, sched, worked, mergedWrites>>
mainVars == <<pc, loopVars, chainVars, mergedVars, countVars, fsVars, runHist>>
vars == <<argVars, mainVars, batchVars, taskHist>>

\* ---------------------------------------------------------------- Init
Init ==
  /\ batchArg \in { IntArg(n) : n \in 1..MaxC }
  /\ skipExisting \in BOOLEAN
  /\ concurrency = batchSize(batchArg)
  /\ files \in { [k \in Names |-> IF k = "1" THEN f ELSE Absent] : f \in PreExisting }
  /\ mergedFile = AllJson(files)
  /\ pc = "start"
  /\ chains = <<>> /\ chainIndex = 0
  /\ urls = <<>> /\ outcomes = <<>> /\ rpcs = <<>> /\ idx = 0
  /\ merged = [k \in Names |-> NoEntry] /\ mergedKeys = <<>>
  /\ totalRpcChecked = 0 /\ totalWorking = 0 /\ skipped = 0 /\ written = 0
  /\ bpc = "none" /\ tasks = <<>> /\ results = <<>> /\ index = 0
  /\ spawned = 0 /\ running = 0 /\ retval = Unset
  /\ overtaken = FALSE /\ stageLog = <<>> /\ invoked = <<>> /\ inFlight = 0
  /\ chainState = <<>> /\ writes = <<>> /\ probes = <<>> /\ sched = <<>>
  /\ worked = <<>> /\ mergedWrites = 0

\* ------------------------------------------------------- pure functions

\* getRpcs: the url of every entry, whatever it is.
EntryUrl(entry) == IF entry.t = "string" THEN entry.s ELSE entry.url
getRpcs(chain) == [i \in 1..Len(chain.rpc) |-> EntryUrl(chain.rpc[i])]

\* allChains.filter(c => c.chainId != null && chainIdSet.has(Number(c.chainId)))
InAllowList(c, allow) == c.chainId # JsNull /\ Number(c.chainId) \in allow.ids
FilterChains(allChains, allow) ==
  IF allow.all THEN allChains
  ELSE SelectSeq(allChains, LAMBDA c : InAllowList(c, allow))

\* chain.name ?? "unknown"
NameOf(chain) == IF chain.name = Undef THEN "unknown" ELSE chain.name

Payload(chain, list) == [name |-> NameOf(chain), chainId |-> chain.chainId, rpcs |-> list]

\* path.join(outDir, `${chainId}.json`), as the key of the file
FileKey(chain) == String(chain.chainId)

\* extractHost: the hostname, or "" for what new URL() rejects.
extractHost(url) ==
  CASE url = UrlA -> "a" [] url = UrlB -> "b" [] url = "task" -> "task" [] OTHER -> ""

NoCandidatesNever(list) == FALSE

\* urls.length === 0
NoCandidates(list) == Len(list) = 0

PushFront(list, x) == <<x>> \o list
PushNothing(list, x) == list

\* rpcs.push(result)
Push(list, x) == Append(list, x)

MergedEmptied(m, chain, payload) ==
  [m EXCEPT ![String(chain.chainId)] = [payload EXCEPT !.rpcs = <<>>]]

MergedOnly(m, chain, payload) ==
  [k \in DOMAIN m |-> IF k = String(chain.chainId) THEN payload ELSE [t |-> "none"]]

\* merged[String(chainId)] = payload
MergedWith(m, chain, payload) == [m EXCEPT ![String(chain.chainId)] = payload]

\* urls.map(url => async () => ...): one probe closure per url.
taskFns(list) == [i \in 1..Len(list) |-> [kind |-> "probe", url |-> list[i]]]

Outcome(url, ipv6) == [url |-> url, supportsIpv6 |-> ipv6]

ZeroFor(s) == [i \in 1..Len(s) |-> 0]
EmptyLogs(s) == [i \in 1..Len(s) |-> <<>>]

\* ------------------------------------------------------------------ main
ChainsLeftNever == FALSE

\* for (const chain of chains): the list has a next chain.
ChainsLeft == chainIndex < Len(chains)

Current == chains[chainIndex + 1]

\* The frame of a batchCall that is over: nothing refers to it any more.
DropFrame ==
  /\ bpc' = "none" /\ tasks' = <<>> /\ results' = <<>> /\ index' = 0
  /\ spawned' = 0 /\ running' = 0 /\ retval' = Unset
  /\ overtaken' = FALSE /\ stageLog' = <<>> /\ invoked' = <<>>
  /\ UNCHANGED inFlight

\* The block-scoped constants of the previous turn of the chain loop.
ClearChain ==
  /\ urls' = <<>> /\ outcomes' = <<>> /\ rpcs' = <<>> /\ idx' = 0
  /\ UNCHANGED <<batchVars, taskHist>>

\* fetch(FETCH_URL) answers with a list; the allow-list filters it.
FetchDirectory ==
  /\ pc = "start"
  /\ \E allChains \in AllDirectories, allow \in AllowLists :
       /\ chains' = FilterChains(allChains, allow)
       /\ chainState' = [c \in 1..Len(chains') |-> "pending"]
       /\ writes' = ZeroFor(chains')
       /\ probes' = ZeroFor(chains')
       /\ sched' = ZeroFor(chains')
       /\ worked' = ZeroFor(chains')
  /\ pc' = "loop"
  /\ UNCHANGED <<argVars, chainIndex, chainVars, mergedVars, countVars, fsVars,
                 mergedWrites, batchVars, taskHist>>

\* !res.ok, a rejected fetch, or a body that is no array: main throws.
FetchFails ==
  /\ pc = "start"
  /\ pc' = "crashed"
  /\ UNCHANGED <<argVars, loopVars, chainVars, mergedVars, countVars, fsVars, runHist,
                 batchVars, taskHist>>

\* if (chainId == null || chainId === "") continue
SkipMissingId ==
  /\ pc = "loop" /\ ChainsLeft
  /\ IdMissing(Current.chainId)
  /\ chainIndex' = chainIndex + 1
  /\ chainState' = [chainState EXCEPT ![chainIndex + 1] = "no-id"]
  /\ ClearChain
  /\ UNCHANGED <<argVars, pc, chains, mergedVars, countVars, fsVars, writes, probes, sched,
                 worked, mergedWrites>>

UseExisting(chain) == skipExisting /\ files[FileKey(chain)] # Absent

\* skip-existing: the file's parsed content becomes the merged entry.
SkipExisting ==
  /\ pc = "loop" /\ ChainsLeft
  /\ ~IdMissing(Current.chainId)
  /\ UseExisting(Current)
  /\ JSONparses(files[FileKey(Current)])
  /\ merged' = MergedWith(merged, Current, JSONparse(files[FileKey(Current)]))
  /\ mergedKeys' = InsertKey(mergedKeys, String(Current.chainId))
  /\ skipped' = skipped + 1
  /\ chainIndex' = chainIndex + 1
  /\ chainState' = [chainState EXCEPT ![chainIndex + 1] = "skipped"]
  /\ ClearChain
  /\ UNCHANGED <<argVars, pc, chains, totalRpcChecked, totalWorking, written, fsVars,
                 writes, probes, sched, worked, mergedWrites>>

\* skip-existing on a file that is no JSON: JSON.parse throws out of main.
SkipExistingThrows ==
  /\ pc = "loop" /\ ChainsLeft
  /\ ~IdMissing(Current.chainId)
  /\ UseExisting(Current)
  /\ ~JSONparses(files[FileKey(Current)])
  /\ chainIndex' = chainIndex + 1
  /\ pc' = "crashed"
  /\ ClearChain
  /\ UNCHANGED <<argVars, chains, mergedVars, countVars, fsVars, runHist>>

\* urls.length === 0: the empty record is written at once.
WriteEmpty ==
  /\ pc = "loop" /\ ChainsLeft
  /\ ~IdMissing(Current.chainId)
  /\ ~UseExisting(Current)
  /\ NoCandidates(getRpcs(Current))
  /\ files' = [files EXCEPT ![FileKey(Current)] = JSONstringify(Payload(Current, <<>>))]
  /\ merged' = MergedWith(merged, Current, Payload(Current, <<>>))
  /\ mergedKeys' = InsertKey(mergedKeys, String(Current.chainId))
  /\ written' = written + 1
  /\ chainIndex' = chainIndex + 1
  /\ chainState' = [chainState EXCEPT ![chainIndex + 1] = "empty-written"]
  /\ writes' = [writes EXCEPT ![chainIndex + 1] = @ + 1]
  /\ ClearChain
  /\ UNCHANGED <<argVars, pc, chains, totalRpcChecked, totalWorking, skipped, mergedFile,
                 probes, sched, worked, mergedWrites>>

\* const results = [], let index = 0: the frame of one batchCall.
BatchCallEnter(fns) ==
  /\ bpc' = "workers"
  /\ tasks' = fns
  /\ results' = [i \in 1..Len(fns) |-> Unset]
  /\ index' = 0
  /\ spawned' = 0 /\ running' = 0
  /\ retval' = Pending("batchCall")
  /\ overtaken' = FALSE
  /\ stageLog' = EmptyLogs(fns)
  /\ invoked' = ZeroFor(fns)
  /\ UNCHANGED inFlight

\* A chain with candidates: the tasks are built and batchCall is entered.
StartChecks ==
  /\ pc = "loop" /\ ChainsLeft
  /\ ~IdMissing(Current.chainId)
  /\ ~UseExisting(Current)
  /\ ~NoCandidates(getRpcs(Current))
  /\ chainIndex' = chainIndex + 1
  /\ urls' = getRpcs(Current)
  /\ outcomes' = <<>> /\ rpcs' = <<>> /\ idx' = 0
  /\ BatchCallEnter(taskFns(getRpcs(Current)))
  /\ sched' = [sched EXCEPT ![chainIndex + 1] = @ + 1]
  /\ pc' = "batch"
  /\ UNCHANGED <<argVars, chains, mergedVars, countVars, fsVars, chainState, writes, probes,
                 worked, mergedWrites>>

\* ------------------------------------------------------------- batchCall
\* Math.min(concurrency, tasks.length)
WorkerCount == Min(concurrency, Len(tasks))

NextIndexStuck(i) == i

\* const i = index++
NextIndex(i) == i + 1

InvokeAtRpc(task) == IF task.kind = "probe" THEN Pending("rpc") ELSE Pending("task")

\* tasks[i](): the async closure runs to its first await, which for a probe
\* is the connectivity request.
Invoke(task) == IF task.kind = "probe" THEN Pending("connect") ELSE Pending("task")

\* while (index < tasks.length)
WorkerLoops == index < Len(tasks)

\* Array.from({length}, () => worker()): the next worker is called.
WorkerSpawn ==
  /\ bpc = "workers" /\ running = 0
  /\ spawned < WorkerCount
  /\ spawned' = spawned + 1
  /\ running' = spawned + 1
  /\ UNCHANGED <<argVars, mainVars, bpc, tasks, results, index, retval, taskHist>>

\* One turn of a worker's loop: claim the index, call the task, store its
\* promise.  Nothing is awaited, so the worker goes straight on.
WorkerStep ==
  /\ running # 0
  /\ WorkerLoops
  /\ index' = NextIndex(index)
  /\ results' = [results EXCEPT ![index + 1] = Invoke(tasks[index + 1])]
  /\ invoked' = [invoked EXCEPT ![index + 1] = @ + 1]
  /\ inFlight' = inFlight + 1
  /\ probes' = IF pc = "batch" THEN [probes EXCEPT ![chainIndex] = @ + 1] ELSE probes
  /\ UNCHANGED <<argVars, pc, loopVars, chainVars, mergedVars, countVars, fsVars,
                 chainState, writes, sched, worked, mergedWrites,
                 bpc, tasks, spawned, running, retval, overtaken, stageLog>>

\* The loop condition fails: the worker's promise is fulfilled.
WorkerReturn ==
  /\ running # 0
  /\ ~WorkerLoops
  /\ running' = 0
  /\ UNCHANGED <<argVars, mainVars, bpc, tasks, results, index, spawned, retval,
                 taskHist>>

\* await Promise.all(workers), every worker being fulfilled already; then
\* return Promise.all(results) is pending on the tasks.
AwaitWorkers ==
  /\ bpc = "workers" /\ running = 0
  /\ spawned = WorkerCount
  /\ bpc' = "awaitResults"
  /\ UNCHANGED <<argVars, mainVars, tasks, results, index, spawned, running, retval,
                 taskHist>>

PromiseAllValuesReversed(rs) == [i \in 1..Len(rs) |-> rs[Len(rs) + 1 - i].value]

\* The values of Promise.all: in the order of the array, not of completion.
PromiseAllValues(rs) == [i \in 1..Len(rs) |-> rs[i].value]

PromiseAllEarly(rs) ==
  IF \E i \in 1..Len(rs) : rs[i].state = "rejected" THEN Rejected
  ELSE IF Len(rs) = 0 \/ \E i \in 1..Len(rs) : rs[i].state = "fulfilled"
    THEN Fulfilled([i \in 1..Len(rs) |->
                      IF rs[i].state = "fulfilled" THEN rs[i].value ELSE JsNull])
    ELSE Pending("all")

\* Promise.all(results): rejected as soon as one promise is, fulfilled once
\* every promise is, pending until then.
PromiseAll(rs) ==
  IF \E i \in 1..Len(rs) : rs[i].state = "rejected" THEN Rejected
  ELSE IF \A i \in 1..Len(rs) : rs[i].state = "fulfilled"
    THEN Fulfilled(PromiseAllValues(rs))
    ELSE Pending("all")

\* return Promise.all(results): batchCall's promise is fulfilled.
BatchCallReturns ==
  /\ bpc = "awaitResults"
  /\ PromiseAll(results).state = "fulfilled"
  /\ bpc' = "returned"
  /\ retval' = PromiseAll(results)
  /\ UNCHANGED <<argVars, mainVars, tasks, results, index, spawned, running, taskHist>>

\* ... or rejected.
BatchCallRejects ==
  /\ bpc = "awaitResults"
  /\ PromiseAll(results).state = "rejected"
  /\ bpc' = "rejected"
  /\ retval' = PromiseAll(results)
  /\ UNCHANGED <<argVars, mainVars, tasks, results, index, spawned, running, taskHist>>

\* ----------------------------------------------------------- the probe
\* Network callbacks run only while no synchronous code and no promise
\* reaction is due: main (or the caller) is suspended in its await, and
\* batchCall in a Promise.all(results) that is still pending, or it is over.
EventLoopFree ==
  /\ pc \in {"batch", "caller"}
  /\ \/ bpc = "awaitResults" /\ PromiseAll(results).state = "pending"
     \/ bpc = "rejected"

At(i, stage) == results[i] = Pending(stage)

\* overtaken: a task has settled while one before it in the list had not.
Settle(i, promise, entry) ==
  /\ results' = [results EXCEPT ![i] = promise]
  /\ overtaken' = (overtaken \/ \E j \in 1..(i - 1) : results[j].state = "pending")
  /\ inFlight' = inFlight - 1
  /\ stageLog' = [stageLog EXCEPT ![i] = Append(@, entry)]

Advance(i, stage, entry) ==
  /\ results' = [results EXCEPT ![i] = Pending(stage)]
  /\ stageLog' = [stageLog EXCEPT ![i] = Append(@, entry)]
  /\ UNCHANGED <<overtaken, inFlight>>

\* checkConnect: fetch(url) completes within CONNECT_TIMEOUT_MS.
ConnectOk(i) ==
  /\ EventLoopFree /\ At(i, "connect")
  /\ IsValidUrl(tasks[i].url)
  /\ Advance(i, "rpc", "connect:ok")
  /\ UNCHANGED <<argVars, mainVars, bpc, tasks, index, spawned, running, retval, invoked>>

\* checkConnect catches: bad url, network error, timeout. The task returns null.
ConnectFail(i) ==
  /\ EventLoopFree /\ At(i, "connect")
  /\ Settle(i, Fulfilled(JsNull), "connect:fail")
  /\ UNCHANGED <<argVars, mainVars, bpc, tasks, index, spawned, running, retval, invoked>>

\* checkRpc: a hex result.  extractHost follows, and checkIpv6 returns false
\* at once for an empty host, or starts the AAAA lookup.
RpcOk(i) ==
  /\ EventLoopFree /\ At(i, "rpc")
  /\ IF extractHost(tasks[i].url) = ""
       THEN Settle(i, Fulfilled(Outcome(tasks[i].url, FALSE)), "rpc:ok")
       ELSE Advance(i, "ipv6", "rpc:ok")
  /\ UNCHANGED <<argVars, mainVars, bpc, tasks, index, spawned, running, retval, invoked>>

\* checkRpc: error, timeout, no JSON, no hex result. The task returns null.
RpcFail(i) ==
  /\ EventLoopFree /\ At(i, "rpc")
  /\ Settle(i, Fulfilled(JsNull), "rpc:fail")
  /\ UNCHANGED <<argVars, mainVars, bpc, tasks, index, spawned, running, retval, invoked>>

\* checkIpv6: the lookup answers with at least one AAAA record, or with
\* none, an error or the 5000 ms timeout.
Ipv6Done(i, yes) ==
  /\ EventLoopFree /\ At(i, "ipv6")
  /\ Settle(i, Fulfilled(Outcome(tasks[i].url, yes)), IF yes THEN "ipv6:yes" ELSE "ipv6:no")
  /\ UNCHANGED <<argVars, mainVars, bpc, tasks, index, spawned, running, retval, invoked>>

Probe ==
  \E i \in 1..Len(tasks) :
    \/ ConnectOk(i)
    \/ ConnectFail(i)
    \/ RpcOk(i)
    \/ RpcFail(i)
    \/ \E yes \in BOOLEAN : Ipv6Done(i, yes)

\* ------------------------------------------------- main: the report loop
Checked == chains[chainIndex]

AwaitMissing(p) == [ready |-> TRUE, value |-> [i \in 1..Len(tasks) |-> JsNull]]

\* await p: whether main may go on, and with what value.
Await(p) ==
  [ready |-> p.state = "fulfilled",
   value |-> IF p.state = "fulfilled" THEN p.value ELSE <<>>]

\* const outcomes = await batchCall(taskFns, concurrency): main resumes.
AwaitBatchCall ==
  /\ pc = "batch"
  /\ Await(retval).ready
  /\ outcomes' = Await(retval).value
  /\ pc' = "report"
  /\ DropFrame
  /\ UNCHANGED <<argVars, loopVars, urls, rpcs, idx, mergedVars, countVars, fsVars, runHist>>

\* Truthiness of an outcome: `if (!result)`.
Truthy(result) == result # JsNull

\* url.length on undefined is a TypeError, which leaves main.
ReportThrows ==
  /\ pc = "report" /\ idx < Len(urls)
  /\ urls[idx + 1] = Undef
  /\ totalRpcChecked' = totalRpcChecked + 1
  /\ pc' = "crashed"
  /\ UNCHANGED <<argVars, loopVars, chainVars, mergedVars, totalWorking, skipped, written,
                 fsVars, runHist, batchVars, taskHist>>

\* One turn of `for (let idx = 0; idx < urls.length; idx++)`.
ReportUrl ==
  /\ pc = "report" /\ idx < Len(urls)
  /\ urls[idx + 1] # Undef
  /\ totalRpcChecked' = totalRpcChecked + 1
  /\ IF Truthy(outcomes[idx + 1])
       THEN /\ rpcs' = Push(rpcs, outcomes[idx + 1])
            /\ totalWorking' = totalWorking + 1
       ELSE UNCHANGED <<rpcs, totalWorking>>
  /\ idx' = idx + 1
  /\ UNCHANGED <<argVars, pc, loopVars, urls, outcomes, mergedVars, skipped, written,
                 fsVars, runHist, batchVars, taskHist>>

\* After the loop: the chain's record is written and merged.
WriteChecked ==
  /\ pc = "report" /\ idx = Len(urls)
  /\ files' = [files EXCEPT ![FileKey(Checked)] = JSONstringify(Payload(Checked, rpcs))]
  /\ merged' = MergedWith(merged, Checked, Payload(Checked, rpcs))
  /\ mergedKeys' = InsertKey(mergedKeys, String(Checked.chainId))
  /\ written' = written + 1
  /\ chainState' = [chainState EXCEPT ![chainIndex] = "checked-written"]
  /\ writes' = [writes EXCEPT ![chainIndex] = @ + 1]
  /\ worked' = [worked EXCEPT ![chainIndex] = @ + Len(rpcs)]
  /\ pc' = "loop"
  /\ UNCHANGED <<argVars, loopVars, chainVars, totalRpcChecked, totalWorking, skipped,
                 mergedFile, probes, sched, mergedWrites, batchVars, taskHist>>

\* After the last chain: all.json is written and main returns.
WriteMerged ==
  /\ pc = "loop" /\ ~ChainsLeft
  /\ mergedFile' = JSONstringifyObject(merged, mergedKeys)
  /\ mergedWrites' = mergedWrites + 1
  /\ pc' = "done"
  /\ UNCHANGED <<argVars, loopVars, chainVars, mergedVars, countVars, files,
                 chainState, writes, probes, sched, worked, batchVars, taskHist>>

Next ==
  \/ FetchDirectory
  \/ FetchFails
  \/ SkipMissingId
  \/ SkipExisting
  \/ SkipExistingThrows
  \/ WriteEmpty
  \/ StartChecks
  \/ WorkerSpawn
  \/ WorkerStep
  \/ WorkerReturn
  \/ AwaitWorkers
  \/ BatchCallReturns
  \/ AwaitBatchCall
  \/ Probe
  \/ ReportThrows
  \/ ReportUrl
  \/ WriteChecked
  \/ WriteMerged

Spec == Init /\ [][Next]_vars

\* The event loop runs every continuation that is ready, and every stage of a
\* probe ends by its answer or by its timeout: no step that can be taken is
\* put off forever.
SpecLive == Init /\ [][Next]_vars /\ WF_vars(Next)

\* --------------------------------------- batchCall driven by any caller
\* The tasks are any async functions: each ends with a value or throws.
GenericTasks(n) == [i \in 1..n |-> [kind |-> "task", url |-> "task"]]
TaskValues == { JsNull, Outcome("task", TRUE) }

InitBatch ==
  /\ batchArg \in { IntArg(n) : n \in 1..MaxC }
  /\ skipExisting = FALSE
  /\ concurrency = batchSize(batchArg)
  /\ files = [k \in Names |-> Absent]
  /\ mergedFile = Absent
  /\ pc = "caller"
  /\ chains = <<>> /\ chainIndex = 0
  /\ urls = <<>> /\ outcomes = <<>> /\ rpcs = <<>> /\ idx = 0
  /\ merged = [k \in Names |-> NoEntry] /\ mergedKeys = <<>>
  /\ totalRpcChecked = 0 /\ totalWorking = 0 /\ skipped = 0 /\ written = 0
  /\ \E n \in 0..MaxTasks :
       /\ tasks = GenericTasks(n)
       /\ results = [i \in 1..n |-> Unset]
       /\ stageLog = [i \in 1..n |-> <<>>]
       /\ invoked = [i \in 1..n |-> 0]
  /\ bpc = "workers" /\ index = 0 /\ spawned = 0 /\ running = 0
  /\ retval = Pending("batchCall")
  /\ overtaken = FALSE /\ inFlight = 0
  /\ chainState = <<>> /\ writes = <<>> /\ probes = <<>> /\ sched = <<>>
  /\ worked = <<>> /\ mergedWrites = 0

\* The task's promise is fulfilled with its value.
TaskReturns(i, v) ==
  /\ EventLoopFree /\ At(i, "task")
  /\ Settle(i, Fulfilled(v), "task:return")
  /\ UNCHANGED <<argVars, mainVars, bpc, tasks, index, spawned, running, retval, invoked>>

\* The task throws: its promise is rejected.
TaskThrows(i) ==
  /\ EventLoopFree /\ At(i, "task")
  /\ Settle(i, Rejected, "task:throw")
  /\ UNCHANGED <<argVars, mainVars, bpc, tasks, index, spawned, running, retval, invoked>>

Task ==
  \E i \in 1..Len(tasks) :
    \/ \E v \in TaskValues : TaskReturns(i, v)
    \/ TaskThrows(i)

NextBatch ==
  \/ WorkerSpawn
  \/ WorkerStep
  \/ WorkerReturn
  \/ AwaitWorkers
  \/ BatchCallReturns
  \/ BatchCallRejects
  \/ Task

SpecBatch == InitBatch /\ [][NextBatch]_vars

\* ------------------------------------------------ parseArgs on any --batch
ArgValues == {NoArg, TextArg} \cup { IntArg(n) : n \in (0 - MaxBatch)..MaxBatch }

\* The process before parseArgs has run: argv is given, nothing else is.
InitArgs ==
  /\ batchArg \in ArgValues
  /\ skipExisting \in BOOLEAN
  /\ concurrency = 0
  /\ files = [k \in Names |-> Absent]
  /\ mergedFile = Absent
  /\ pc = "args"
  /\ chains = <<>> /\ chainIndex = 0
  /\ urls = <<>> /\ outcomes = <<>> /\ rpcs = <<>> /\ idx = 0
  /\ merged = [k \in Names |-> NoEntry] /\ mergedKeys = <<>>
  /\ totalRpcChecked = 0 /\ totalWorking = 0 /\ skipped = 0 /\ written = 0
  /\ bpc = "none" /\ tasks = <<>> /\ results = <<>> /\ index = 0
  /\ spawned = 0 /\ running = 0 /\ retval = Unset
  /\ overtaken = FALSE /\ stageLog = <<>> /\ invoked = <<>> /\ inFlight = 0
  /\ chainState = <<>> /\ writes = <<>> /\ probes = <<>> /\ sched = <<>>
  /\ worked = <<>> /\ mergedWrites = 0

\* const { ..., batchSize: concurrency } = parseArgs()
ParseArgs ==
  /\ pc = "args"
  /\ concurrency' = batchSize(batchArg)
  /\ pc' = "parsed"
  /\ UNCHANGED <<batchArg, skipExisting, loopVars, chainVars, mergedVars, countVars,
                 fsVars, runHist, batchVars, taskHist>>

NextArgs == ParseArgs

SpecArgs == InitArgs /\ [][NextArgs]_vars

\* ================================================================ claims
Terminal == {"skipped", "empty-written", "checked-written"}
Written == {"empty-written", "checked-written"}
KeyOf(c) == String(chains[c].chainId)
PendingResults == { i \in 1..Len(results) : results[i].state = "pending" }

\* The chain at c took the skip-existing branch: it was skipped, or the
\* branch threw on its file.
SkipBranch(c) ==
  \/ chainState[c] = "skipped"
  \/ c = chainIndex /\ pc = "crashed" /\ sched[c] = 0

\* C1: with 1 <= C < N, the tasks started and not yet completed never
\* number more than C.
C1_AtMostCInFlight ==
  (bpc # "none" /\ concurrency < Len(tasks)) => inFlight <= concurrency

\* What the probe of position i has produced, read off its stages.
Produced(i) ==
  LET log == stageLog[i]
      last == log[Len(log)]
  IN  CASE last = "ipv6:yes" -> Outcome(urls[i], TRUE)
        [] last = "ipv6:no" -> Outcome(urls[i], FALSE)
        [] last = "rpc:ok" -> Outcome(urls[i], FALSE)
        [] OTHER -> JsNull

\* C2: batchCall returns a list of exactly N results, result[i] being the
\* value produced by tasks[i], whatever the order of completion.
C2_ResultsAligned ==
  /\ retval.state = "fulfilled" =>
       /\ Len(retval.value) = Len(urls)
       /\ \A i \in 1..Len(urls) : retval.value[i] = Produced(i)
  /\ pc = "report" => Len(outcomes) = Len(urls)

C2_Witness ==
  /\ retval.state = "fulfilled" /\ Len(tasks) = 2 /\ overtaken
  /\ retval.value[1] # retval.value[2]

\* C3: every task index is claimed and its task invoked exactly once, for
\* any number of workers; a checked chain has one probe per candidate
\* position, duplicates included.
C3_ClaimedOnce ==
  /\ \A i \in 1..Len(invoked) : invoked[i] <= 1
  /\ bpc \in {"awaitResults", "returned", "rejected"} =>
       /\ index = Len(tasks)
       /\ \A i \in 1..Len(invoked) : invoked[i] = 1
  /\ \A c \in 1..Len(chains) :
       /\ probes[c] <= Len(chains[c].rpc)
       /\ chainState[c] = "checked-written" => probes[c] = Len(chains[c].rpc)

C3_Witness ==
  /\ bpc = "returned" /\ pc = "batch"
  /\ Len(tasks) = 2 /\ spawned = 2
  /\ urls[1] = urls[2] /\ urls[1] # Undef

\* C4: a task that fails does not make batchCall fail: the failure does
\* not reach the caller.
C4_FailureAbsorbed ==
  (\E i \in 1..Len(results) : results[i] = Rejected) => retval # Rejected

\* The candidates whose outcome is present, in the order of the candidates.
RECURSIVE PresentOf(_, _)
PresentOf(us, os) ==
  IF us = <<>> THEN <<>>
  ELSE (IF Head(os) # JsNull
          THEN << [url |-> Head(us), supportsIpv6 |-> Head(os).supportsIpv6] >>
          ELSE <<>>)
       \o PresentOf(Tail(us), Tail(os))

\* C5: the rpcs list written for a checked chain is the candidate list
\* filtered, in order, to the positions whose outcome is present.
C5_RpcsSubsequence ==
  (chainIndex >= 1 /\ chainState[chainIndex] = "checked-written") =>
    /\ Len(outcomes) = Len(getRpcs(Checked))
    /\ files[KeyOf(chainIndex)] =
         JSONstringify(Payload(Checked, PresentOf(getRpcs(Checked), outcomes)))

C5_Witness ==
  /\ chainIndex >= 1 /\ chainState[chainIndex] = "checked-written"
  /\ Len(urls) = 2 /\ Len(rpcs) = 2
  /\ rpcs[1].url # rpcs[2].url

\* C6: under skip-existing a chain whose file exists starts no probe,
\* leaves the file as it is, and has the file's content as merged entry.
C6_SkipExistingReuses ==
  \A c \in 1..chainIndex :
    (~IdMissing(chains[c].chainId) /\ SkipBranch(c)) =>
      /\ probes[c] = 0 /\ sched[c] = 0 /\ writes[c] = 0
      /\ merged[KeyOf(c)] # NoEntry
      /\ files[KeyOf(c)] = JSONstringify(merged[KeyOf(c)])

\* C7: a chain without candidates that is not skipped gets its record with
\* an empty rpcs list at once, and neither batchCall nor a probe is started.
C7_EmptyChainWritten ==
  \A c \in 1..chainIndex :
    (~IdMissing(chains[c].chainId) /\ Len(getRpcs(chains[c])) = 0 /\ ~SkipBranch(c)) =>
      /\ chainState[c] = "empty-written"
      /\ sched[c] = 0 /\ probes[c] = 0 /\ writes[c] = 1
      /\ c = chainIndex =>
           /\ files[KeyOf(c)] # Absent
           /\ JSONparse(files[KeyOf(c)]).rpcs = <<>>

C7_Witness ==
  /\ chainIndex = 2 /\ pc = "loop"
  /\ chainState[1] = "checked-written" /\ chainState[2] = "empty-written"

\* C8: a chain goes from pending to one terminal state and stays there; its
\* file is written once in the written states (for a checked chain when no
\* probe is in flight any more) and never in the skipped state.
C8_State ==
  \A c \in 1..Len(chains) :
    /\ chainState[c] \in Written => writes[c] = 1
    /\ chainState[c] \notin Written => writes[c] = 0
    /\ chainState[c] \in Terminal => ~IdMissing(chains[c].chainId)
    /\ (pc = "done" /\ ~IdMissing(chains[c].chainId)) => chainState[c] \in Terminal

C8_Step ==
  pc # "start" =>
    \A c \in 1..Len(chains) :
      /\ chainState'[c] # chainState[c] =>
           /\ chainState[c] = "pending"
           /\ chainState'[c] \in Terminal \cup {"no-id"}
      /\ writes'[c] # writes[c] =>
           /\ chainState[c] = "pending" /\ chainState'[c] \in Written
           /\ chainState'[c] = "checked-written" =>
                inFlight = 0 /\ probes[c] = Len(chains[c].rpc)

C8_ChainStateMachine == [](C8_State) /\ [][C8_Step]_vars

C8_Witness ==
  /\ pc = "done" /\ Len(chains) = 2
  /\ chainState[1] = "checked-written" /\ chainState[2] = "skipped"

\* C9: chains are processed one after the other in list order: probes are
\* in flight only for the current chain, whose predecessors are all settled
\* and written (or skipped), and no later chain has been touched.
C9_Sequential ==
  /\ inFlight > 0 =>
       /\ pc = "batch" /\ retval.state = "pending"
       /\ inFlight = Cardinality(PendingResults)
       /\ chainState[chainIndex] = "pending"
  /\ \A c \in 1..Len(chains) :
       /\ c < chainIndex => chainState[c] # "pending"
       /\ c > chainIndex =>
            chainState[c] = "pending" /\ probes[c] = 0 /\ sched[c] = 0 /\ writes[c] = 0

C9_Witness ==
  /\ chainIndex = 2 /\ inFlight > 0
  /\ chainState[1] = "checked-written"

\* C10: the merged set has an entry exactly for the keys String(chainId) of
\* the processed chains, and an entry once inserted stays.
C10_State ==
  \A k \in Keys :
    merged[k] # NoEntry <=>
      \E c \in 1..Len(chains) : chainState[c] \in Terminal /\ KeyOf(c) = k

C10_Step == \A k \in Keys : merged[k] # NoEntry => merged'[k] # NoEntry

C10_MergedEntries == [](C10_State) /\ [][C10_Step]_vars

C10_Witness ==
  /\ pc = "done" /\ Len(chains) = 2
  /\ chainState[1] = "skipped" /\ chainState[2] \in Written
  /\ merged["1"] # NoEntry /\ merged["2"] # NoEntry

\* The keys of the chains that reached a terminal state, in the order of the
\* chain list, each key where it first occurs.
RECURSIVE KeysInOrder(_, _)
KeysInOrder(c, acc) ==
  IF c > Len(chains) THEN acc
  ELSE KeysInOrder(c + 1,
         IF chainState[c] \in Terminal /\ ~\E i \in 1..Len(acc) : acc[i] = KeyOf(c)
           THEN Append(acc, KeyOf(c)) ELSE acc)

\* C11: the entries of the written merged document are in the order in which
\* the chains were processed.
C11_MergedOrder ==
  mergedWrites > 0 => mergedFile.keys = KeysInOrder(1, <<>>)

\* A chain's record is being written in this step.
WritingKey(k) ==
  \E c \in 1..Len(chains) : KeyOf(c) = k /\ writes'[c] = writes[c] + 1

\* C12 as stated: the merged document is written once per run (never twice,
\* and once when main returns) and only when no chain is pending, the merged
\* file is as at the start until then, and a per-chain file once written by
\* the run is never modified.
C12_OnceState ==
  /\ mergedWrites <= 1
  /\ pc = "done" => mergedWrites = 1

C12_OnceStep ==
  pc # "start" =>
    /\ mergedWrites' # mergedWrites =>
         \A c \in 1..Len(chains) : chainState[c] # "pending"
    /\ mergedWrites' = mergedWrites => mergedFile' = mergedFile
    /\ \A k \in Keys :
         (\E c \in 1..Len(chains) : KeyOf(c) = k /\ writes[c] > 0) =>
           files'[k] = files[k]

C12_MergedWrittenOnce == [](C12_OnceState) /\ [][C12_OnceStep]_vars

\* C12, amended: the merged document is written at most once, exactly once
\* in a run that completes, and only when no chain is pending; the merged
\* file is as at the start until then; a per-chain file changes only in the
\* one write of a chain with that key, before the merged write.
C12_AmendedState ==
  /\ mergedWrites <= 1
  /\ pc = "done" <=> mergedWrites = 1

C12_AmendedStep ==
  pc # "start" =>
    /\ mergedWrites' # mergedWrites =>
         /\ mergedWrites = 0
         /\ \A c \in 1..Len(chains) : chainState[c] # "pending"
    /\ mergedWrites' = mergedWrites => mergedFile' = mergedFile
    /\ \A k \in Keys :
         files'[k] # files[k] => (WritingKey(k) /\ mergedWrites' = 0)
    /\ \A c \in 1..Len(chains) :
         writes'[c] # writes[c] => (writes[c] = 0 /\ writes'[c] = 1)

C12_MergedWrittenOnceCompleted == [](C12_AmendedState) /\ [][C12_AmendedStep]_vars

C12_Witness ==
  /\ pc = "done" /\ mergedWrites = 1 /\ Len(chains) = 2
  /\ KeyOf(1) = KeyOf(2) /\ writes = <<1, 1>>
  /\ mergedFile # AllJson([k \in Names |-> IF k = "1" THEN JSONstringify(OldRecord) ELSE Absent])

\* The stages a probe can have been through, in their order.
StageLogs ==
  { <<>>, <<"connect:fail">>, <<"connect:ok">>,
    <<"connect:ok", "rpc:fail">>, <<"connect:ok", "rpc:ok">>,
    <<"connect:ok", "rpc:ok", "ipv6:yes">>, <<"connect:ok", "rpc:ok", "ipv6:no">> }

BothPassed(log) == Len(log) >= 2 /\ log[1] = "connect:ok" /\ log[2] = "rpc:ok"

\* C13: a probe goes through connectivity, RPC correctness and IPv6 in this
\* order, a stage being started only when the ones before it passed; its
\* outcome is present exactly when connectivity and RPC correctness passed,
\* and the IPv6 stage decides the flag alone.
C13_StageOrder ==
  pc = "batch" =>
    \A i \in 1..Len(tasks) :
      /\ stageLog[i] \in StageLogs
      /\ results[i] = Unset => stageLog[i] = <<>>
      /\ results[i].state = "pending" =>
           /\ results[i].at \in {"connect", "rpc", "ipv6"}
           /\ results[i].at = "connect" <=> stageLog[i] = <<>>
           /\ results[i].at = "rpc" <=> stageLog[i] = <<"connect:ok">>
           /\ results[i].at = "ipv6" <=> stageLog[i] = <<"connect:ok", "rpc:ok">>
      /\ results[i].state = "fulfilled" =>
           /\ stageLog[i][Len(stageLog[i])] \in
                {"connect:fail", "rpc:fail", "ipv6:yes", "ipv6:no"}
           /\ results[i].value # JsNull <=> BothPassed(stageLog[i])
           /\ results[i].value # JsNull =>
                /\ results[i].value.url = urls[i]
                /\ results[i].value.supportsIpv6 <=>
                     stageLog[i][Len(stageLog[i])] = "ipv6:yes"
      /\ results[i].state # "rejected"

C13_Witness ==
  /\ pc = "batch" /\ Len(tasks) = 2
  /\ stageLog[1] = <<"connect:ok", "rpc:ok", "ipv6:no">>
  /\ results[1] = Fulfilled(Outcome(urls[1], FALSE))
  /\ stageLog[2] = <<"connect:ok", "rpc:fail">>
  /\ results[2] = Fulfilled(JsNull)

\* The candidate at position i of the chain in hand is no usable url.
Malformed(i) == ~IsValidUrl(urls[i])

\* C14: a malformed candidate has an absent outcome and does not end the
\* run: main does not throw while it reports a chain that has one.
C14_MalformedAbsorbed ==
  /\ pc = "report" =>
       \A i \in 1..Len(urls) : Malformed(i) => outcomes[i] = JsNull
  /\ ~(/\ pc = "crashed" /\ chainIndex >= 1 /\ sched[chainIndex] = 1
       /\ \E i \in 1..Len(urls) : Malformed(i))

\* C15: main ends abnormally only on the directory fetch; once the chain
\* list is loaded nothing throws out of main.
C15_OnlyFetchAborts == [][pc' = "crashed" => pc = "start"]_vars

\* C16: a chain without an id is passed over and the run goes on: nothing is
\* scheduled, probed or written for it, no merged entry is made for it, main
\* does not throw on it, and no record the run writes lacks its chainId.
C16_MissingIdSkipped ==
  /\ \A c \in 1..Len(chains) :
       chains[c].chainId \in MissingIds =>
         /\ chainState[c] = (IF c <= chainIndex THEN "no-id" ELSE "pending")
         /\ sched[c] = 0 /\ probes[c] = 0 /\ writes[c] = 0
         /\ (c = chainIndex) => pc # "crashed"
  /\ \A i \in 1..Len(mergedKeys) : mergedKeys[i] \in Keys
  /\ \A k \in Names :
       /\ k \notin Keys => (files[k] = Absent /\ merged[k] = NoEntry)
       /\ merged[k] # NoEntry => merged[k].chainId \notin MissingIds
       /\ (\E c \in 1..Len(chains) : writes[c] > 0 /\ KeyOf(c) = k) =>
            JSONparse(files[k]).chainId \notin MissingIds
  /\ mergedWrites > 0 =>
       \A i \in 1..Len(mergedFile.keys) :
         mergedFile.v[mergedFile.keys[i]].chainId \notin MissingIds

C16_Witness ==
  /\ pc = "done" /\ Len(chains) = 2
  /\ chains[1].chainId = Str("")
  /\ chainState = <<"no-id", "checked-written">>

\* The value v clamped to the range lo..hi.
Clamp(v, lo, hi) == IF v < lo THEN lo ELSE IF v > hi THEN hi ELSE v

\* C17: the concurrency handed on by parseArgs is an integer in 1..128: 16
\* when --batch is not given, the given number clamped to 1..128 otherwise.
C17_ConcurrencyClamped ==
  pc = "parsed" =>
    /\ concurrency \in 1..128
    /\ batchArg = NoArg => concurrency = 16
    /\ batchArg.t = "int" => concurrency = Clamp(batchArg.n, 1, 128)

\* C18: every started probe comes to an outcome, batchCall returns to main
\* for every chain it is called for, and once the directory is loaded the
\* run comes to the write of the merged document.
C18_Liveness ==
  /\ (inFlight > 0) ~> (inFlight = 0)
  /\ (pc = "batch") ~> (pc = "report")
  /\ (pc = "loop") ~> (pc = "done")

RECURSIVE Sum(_)
Sum(s) == IF s = <<>> THEN 0 ELSE Head(s) + Sum(Tail(s))

\* The number of candidates of chain c if it was written after checking.
CheckedCandidates(c) ==
  IF chainState[c] = "checked-written" THEN Len(getRpcs(chains[c])) ELSE 0

\* C19: when main has returned, written + skipped is the number of chains
\* with an id, the urls checked are the candidates of the chains written
\* after checking, the urls working are the entries of the rpcs lists that
\* were written; working never exceeds checked.
C19_CountersConsistent ==
  /\ totalWorking <= totalRpcChecked
  /\ pc = "done" =>
       /\ written + skipped =
            Cardinality({ c \in 1..Len(chains) : chains[c].chainId \notin MissingIds })
       /\ totalRpcChecked = Sum([c \in 1..Len(chains) |-> CheckedCandidates(c)])
       /\ totalWorking = Sum(worked)

C19_Witness ==
  /\ pc = "done" /\ Len(chains) = 2
  /\ written = 1 /\ skipped = 1
  /\ totalRpcChecked = 2 /\ totalWorking = 1

\* C20: when main has returned, every entry of the merged document is the
\* content of the per-chain file of its key as the file then stands.
C20_MergedEqualsFiles ==
  pc = "done" =>
    \A i \in 1..Len(mergedFile.keys) :
      LET k == mergedFile.keys[i]
      IN  /\ files[k] # Absent
          /\ JSONparses(files[k])
          /\ mergedFile.v[k] = JSONparse(files[k])

C20_Witness ==
  /\ pc = "done" /\ Len(chains) = 2
  /\ KeyOf(1) = KeyOf(2)
  /\ chainState = <<"checked-written", "skipped">>
  /\ Len(mergedFile.v[KeyOf(1)].rpcs) = 1

====
